---- MODULE Spec2Model ----
(***************************************************************************)
(* Model of peloton's per-connection network engine                        *)
(* (src/src/network/network_connection.cpp): the read buffer, the write    *)
(* buffer, the startup framer, the response writer and the connection      *)
(* state machine, over a non-blocking plain or TLS socket.                 *)
(*                                                                         *)
(* Every member function of NetworkConnection is an operator from a world  *)
(* record (the object's fields, its protocol handler, the socket and the   *)
(* event loop) to the set of worlds the call can end in: one for every     *)
(* sequence of outcomes of the system calls it makes (read, write,         *)
(* SSL_read, SSL_write, SSL_accept, SSL_shutdown, close).  w.io records    *)
(* the kinds of outcome read, write and accept met so far in the call.  A  *)
(* byte read outside an array (undefined behaviour) is the input byte      *)
(* w.junk.                                                                 *)
(***************************************************************************)
EXTENDS Integers, Sequences, FiniteSets, TLC

VARIABLES conn, handler, env, hist

vars == <<conn, handler, env, hist>>

-----------------------------------------------------------------------------
(* Bounds of the model *)

\* capacity of the read buffer and of the write buffer (SOCKET_BUFFER_SIZE)
CAP == 6
\* most system calls made inside one member-function call
MaxIO == 2
\* most bytes the socket accepts over one connection
MaxWire == 22
\* most calls of Init on one handle (the constructor's is the first)
MaxInits == 2

-----------------------------------------------------------------------------
(* Bytes, packets *)

Min(a, b) == IF a < b THEN a ELSE b

\* values an out-of-bounds read may return
JunkBytes == {0, 255}

\* htonl + byte copy: the four bytes of n, most significant first
BigEndian32(n) ==
  << (n \div 16777216) % 256, (n \div 65536) % 256, (n \div 256) % 256, n % 256 >>

\* payload of the id-th response: pairwise distinct bytes
PayloadBytes(id, n) == [k \in 1..n |-> 16 * id + k]

OutputPacket(type, id, n) ==
  [msg_type |-> type, len |-> n, buf |-> PayloadBytes(id, n),
   write_ptr |-> 0, skip_header_write |-> FALSE]

\* the wire format of a response: type byte unless 0, length counting itself
\* (once the startup is done), payload
Serialise(pkt, with_len) ==
  (IF pkt.msg_type # 0 THEN <<pkt.msg_type>> ELSE <<>>)
    \o (IF with_len THEN BigEndian32(pkt.len + 4) ELSE <<>>)
    \o pkt.buf

RECURSIVE SerialiseAll(_, _)
SerialiseAll(q, with_len) ==
  IF q = <<>> THEN <<>>
  ELSE Serialise(Head(q), with_len) \o SerialiseAll(Tail(q), with_len)

-----------------------------------------------------------------------------
(* System-call outcomes *)

Return(w, v) == [w EXCEPT !.ret = v]
\* w.log: the library calls of the current member-function call, each at the
\* place of its first occurrence
Logged(w, what) ==
  IF \E k \in 1..Len(w.log) : w.log[k] = what THEN w
  ELSE [w EXCEPT !.log = Append(@, what)]

\* the call meets outcome o of a system call: w.io is the set of the kinds of
\* outcome met in the call, w.calls the number of system calls it has made,
\* w.trace the outcomes in the order they were met
Met(w, o) ==
  [w EXCEPT !.io = @ \cup {o[1]}, !.calls = @ + 1, !.trace = Append(@, o)]

\* what an SSL_read or SSL_write left to wait for: the kind of its outcome
\* when it would have blocked, "done" otherwise
WouldBlockKind(o) == IF o[1] \in {"WANT_READ", "WANT_WRITE"} THEN o[1] ELSE "done"

\* a system call whose outcome the call does not tell apart afterwards
Spent(w) == [w EXCEPT !.calls = @ + 1]

\* a member-function call makes at most MaxIO system calls
MayCall(w) == w.calls < MaxIO

EV_READ_PERSIST == "READ|PERSIST"
EV_WRITE_PERSIST == "WRITE|PERSIST"

-----------------------------------------------------------------------------
(* Event registration *)

\* handler->UnregisterEvent(event): event_del + event_free
UnregisterEvent(w) ==
  IF w.network_event.added
  THEN [w EXCEPT !.net_events = @ - 1, !.network_event.added = FALSE]
  ELSE w

\* handler->RegisterEvent(fd, flags, cb, this): event_new + event_add
RegisterEvent(w, flags) ==
  [w EXCEPT !.net_events = @ + 1,
            !.network_event = [null |-> FALSE, flags |-> flags, added |-> TRUE]]

\* event_del(network_event)
EventDelNetwork(w) ==
  IF w.network_event.added
  THEN [w EXCEPT !.net_events = @ - 1, !.network_event.added = FALSE]
  ELSE w

\* event_add(network_event, nullptr): the event keeps the flags it was made with
EventAddNetwork(w) ==
  IF w.network_event.added THEN w
  ELSE [w EXCEPT !.net_events = @ + 1, !.network_event.added = TRUE]

\* UpdateEvent registering the new event without unregistering the old one
UpdateEvent_NoUnregister(w, flags) ==
  Logged(RegisterEvent(w, flags), <<"UpdateEvent", flags>>)

UpdateEvent(w, flags) ==
  Logged(RegisterEvent(UnregisterEvent(w), flags), <<"UpdateEvent", flags>>)

-----------------------------------------------------------------------------
(* Buffer (rbuf_, wbuf_) *)

EmptyBuf == [i \in 0..(CAP - 1) |-> 0]

\* Buffer::Reset: the indices go to zero, the bytes stay
WbufReset(w) ==
  [w EXCEPT !.wbuf.buf_ptr = 0, !.wbuf.buf_size = 0, !.wbuf.buf_flush_ptr = 0,
            !.unsent = {}]

RbufReset(w) == [w EXCEPT !.rbuf.buf_ptr = 0, !.rbuf.buf_size = 0]

\* wbuf_.buf[i] as the socket reads it: outside the array it is w.junk
WbufAt(w, i) == IF i >= 0 /\ i < CAP THEN w.wbuf.buf[i] ELSE w.junk

\* std::copy of bytes to wbuf_.buf + at (buf_ptr is moved by the caller)
WbufCopy(w, at, bytes) ==
  LET n == Len(bytes)
      dst == at..(at + n - 1)
  IN [w EXCEPT
        !.wbuf.buf = [i \in 0..(CAP - 1) |->
                        IF i \in dst THEN bytes[i - at + 1] ELSE @[i]],
        !.clobbered = @ \/ (dst \cap w.unsent # {}),
        !.ub = @ \/ (n > 0 /\ at + n > CAP),
        !.unsent = @ \cup (dst \cap 0..(CAP - 1))]

-----------------------------------------------------------------------------
(* FlushWriteBuffer *)

\* write(fd, &buf[flush_ptr], buf_size) / SSL_write(...): the region handed over
HandToSocket(w, o) ==
  LET from == w.wbuf.buf_flush_ptr
      region == from..(from + w.wbuf.buf_size - 1)
  IN [Met(w, o) EXCEPT !.handed_ok = @ /\ region \subseteq w.unsent,
                       !.ub = @ \/ (from + w.wbuf.buf_size > CAP)]

\* the socket takes the first n bytes of the region it was handed
Accepted(w, n) ==
  LET from == w.wbuf.buf_flush_ptr
  IN [w EXCEPT !.wire_out = @ \o [k \in 1..n |-> WbufAt(w, from + k - 1)],
               !.ub = @ \/ (from + n > CAP),
               !.unsent = @ \ (from..(from + n - 1)),
               !.wbuf.buf_flush_ptr = @ + n,
               !.wbuf.buf_size = @ - n]

\* what write / SSL_write may answer when asked to take buf_size bytes; a
\* fatal error stays: the calls after it fail too
WriteOutcomes(w) ==
  IF ~MayCall(w) THEN {}
  ELSE IF "FATAL" \in w.io THEN {<<"FATAL", 0>>}
  ELSE {<<"bytes", n>> : n \in 1..Min(w.wbuf.buf_size, MaxWire - Len(w.wire_out))}
       \cup (IF w.conn_SSL_context
             THEN {<<"WANT_WRITE", 0>>, <<"WANT_READ", 0>>, <<"EINTR", 0>>,
                   <<"FATAL", 0>>}
             ELSE {<<"ZERO", 0>>, <<"EAGAIN", 0>>, <<"EINTR", 0>>, <<"FATAL", 0>>})

RECURSIVE FlushWriteBuffer(_)
FlushWriteBuffer(w) ==
  IF w.wbuf.buf_size <= 0
  THEN {Return([WbufReset(w) EXCEPT !.dropped = @ \/ w.unsent # {}],
               "WRITE_COMPLETE")}
  ELSE UNION {
    LET w0 == HandToSocket(w, o)
    IN IF w.conn_SSL_context
       THEN LET w1 == [w0 EXCEPT !.write_blocked = FALSE,
                                 !.write_blocked_on_read = FALSE,
                                 !.last_SSL_write = WouldBlockKind(o)]
            IN CASE o[1] = "bytes" -> FlushWriteBuffer(Accepted(w1, o[2]))
                 [] o[1] = "WANT_WRITE" ->
                      {Return([w1 EXCEPT !.write_blocked = TRUE], "WRITE_NOT_READY")}
                 [] o[1] = "WANT_READ" ->
                      {Return([w1 EXCEPT !.write_blocked_on_read = TRUE],
                              "WRITE_NOT_READY")}
                 [] o[1] = "EINTR" -> FlushWriteBuffer(w1)
                 [] OTHER -> {Return(w1, "WRITE_ERROR")}
       ELSE CASE o[1] = "bytes" -> FlushWriteBuffer(Accepted(w0, o[2]))
              [] o[1] = "ZERO" -> FlushWriteBuffer(w0)
              [] o[1] = "EINTR" -> FlushWriteBuffer(w0)
              [] o[1] = "EAGAIN" ->
                   {Return(UpdateEvent(w0, EV_WRITE_PERSIST), "WRITE_NOT_READY")}
              [] OTHER -> {Return(w0, "WRITE_ERROR")}
    : o \in WriteOutcomes(w) }

Failed(r) == r \in {"WRITE_NOT_READY", "WRITE_ERROR"}

-----------------------------------------------------------------------------
(* BufferWriteBytesHeader, BufferWriteBytesContent, WritePackets *)

\* pkt_buf[k] (k from 0) as std::copy reads it: past the end it is w.junk
PktAt(w, pkt, k) == IF k < Len(pkt.buf) THEN pkt.buf[k + 1] ELSE w.junk

PktSlice(w, pkt, from, n) == [k \in 1..n |-> PktAt(w, pkt, from + k - 1)]

\* PutHeader writing the payload length without the four bytes of the field
PutHeader_BareLength(w, i) ==
  LET pkt == w.responses[i]
      w1 == IF pkt.msg_type # 0
            THEN [WbufCopy(w, w.wbuf.buf_ptr, <<pkt.msg_type>>)
                    EXCEPT !.wbuf.buf_ptr = @ + 1]
            ELSE w
      w2 == IF w1.finish_startup_packet_
            THEN [WbufCopy(w1, w1.wbuf.buf_ptr, BigEndian32(pkt.len))
                    EXCEPT !.wbuf.buf_ptr = @ + 4]
            ELSE w1
  IN Return([w2 EXCEPT !.wbuf.buf_size = w2.wbuf.buf_ptr,
                       !.responses[i].skip_header_write = TRUE,
                       !.headers[i] = @ + 1],
            "WRITE_COMPLETE")

\* the part of BufferWriteBytesHeader after the room check
PutHeader(w, i) ==
  LET pkt == w.responses[i]
      w1 == IF pkt.msg_type # 0
            THEN [WbufCopy(w, w.wbuf.buf_ptr, <<pkt.msg_type>>)
                    EXCEPT !.wbuf.buf_ptr = @ + 1]
            ELSE w
      w2 == IF w1.finish_startup_packet_
            THEN [WbufCopy(w1, w1.wbuf.buf_ptr, BigEndian32(pkt.len + 4))
                    EXCEPT !.wbuf.buf_ptr = @ + 4]
            ELSE w1
  IN Return([w2 EXCEPT !.wbuf.buf_size = w2.wbuf.buf_ptr,
                       !.responses[i].skip_header_write = TRUE,
                       !.headers[i] = @ + 1],
            "WRITE_COMPLETE")

\* BufferWriteBytesHeader not looking at skip_header_write
BufferWriteBytesHeader_IgnoresSkip(w, i) ==
  IF CAP - w.wbuf.buf_ptr < 1 + 4
  THEN {IF Failed(f.ret) THEN f ELSE PutHeader(f, i) : f \in FlushWriteBuffer(w)}
  ELSE {PutHeader(w, i)}

BufferWriteBytesHeader(w, i) ==
  IF w.responses[i].skip_header_write THEN {Return(w, "WRITE_COMPLETE")}
  ELSE IF CAP - w.wbuf.buf_ptr < 1 + 4
       THEN {IF Failed(f.ret) THEN f ELSE PutHeader(f, i) : f \in FlushWriteBuffer(w)}
       ELSE {PutHeader(w, i)}

RECURSIVE ContentLoop(_, _, _)

\* the loop not moving the packet's cursor when it fills the buffer
ContentLoop_KeepsWritePtr(w, i, len) ==
  IF len = 0 THEN {Return(w, "WRITE_COMPLETE")}
  ELSE
    LET pkt == w.responses[i]
        window == CAP - w.wbuf.buf_ptr
    IN IF len <= window
       THEN LET c == WbufCopy(w, w.wbuf.buf_ptr, PktSlice(w, pkt, pkt.write_ptr, len))
            IN {Return([c EXCEPT !.ub = @ \/ (pkt.write_ptr + len > Len(pkt.buf)),
                                 !.overread = @ \/ (pkt.write_ptr + len > Len(pkt.buf)),
                                 !.wbuf.buf_ptr = @ + len,
                                 !.wbuf.buf_size = w.wbuf.buf_ptr + len],
                       "WRITE_COMPLETE")}
       ELSE LET c == WbufCopy(w, w.wbuf.buf_ptr,
                              PktSlice(w, pkt, pkt.write_ptr, window))
                c1 == [c EXCEPT !.ub = @ \/ (window > 0
                                             /\ pkt.write_ptr + window > Len(pkt.buf)),
                                !.overread = @ \/ (window > 0
                                                   /\ pkt.write_ptr + window > Len(pkt.buf)),
                                !.wbuf.buf_size = CAP]
            IN UNION {IF Failed(f.ret) THEN {f} ELSE ContentLoop(f, i, len - window)
                      : f \in FlushWriteBuffer(c1)}

\* the while (len) loop of BufferWriteBytesContent; len is its local variable
ContentLoop(w, i, len) ==
  IF len = 0 THEN {Return(w, "WRITE_COMPLETE")}
  ELSE
    LET pkt == w.responses[i]
        window == CAP - w.wbuf.buf_ptr
    IN IF len <= window
       THEN LET c == WbufCopy(w, w.wbuf.buf_ptr, PktSlice(w, pkt, pkt.write_ptr, len))
            IN {Return([c EXCEPT !.ub = @ \/ (pkt.write_ptr + len > Len(pkt.buf)),
                                 !.overread = @ \/ (pkt.write_ptr + len > Len(pkt.buf)),
                                 !.wbuf.buf_ptr = @ + len,
                                 !.wbuf.buf_size = w.wbuf.buf_ptr + len],
                       "WRITE_COMPLETE")}
       ELSE LET c == WbufCopy(w, w.wbuf.buf_ptr,
                              PktSlice(w, pkt, pkt.write_ptr, window))
                c1 == [c EXCEPT !.ub = @ \/ (window > 0
                                             /\ pkt.write_ptr + window > Len(pkt.buf)),
                                !.overread = @ \/ (window > 0
                                                   /\ pkt.write_ptr + window > Len(pkt.buf)),
                                !.responses[i].write_ptr = @ + window,
                                !.wbuf.buf_size = CAP]
            IN UNION {IF Failed(f.ret) THEN {f} ELSE ContentLoop(f, i, len - window)
                      : f \in FlushWriteBuffer(c1)}

BufferWriteBytesContent(w, i) == ContentLoop(w, i, w.responses[i].len)

\* the for loop of WritePackets, from next_response_
RECURSIVE PacketLoop(_)
PacketLoop(w) ==
  IF w.next_response_ >= Len(w.responses) THEN {Return(w, "DRAINED")}
  ELSE
    LET i == w.next_response_ + 1
    IN UNION {
         IF Failed(h.ret) THEN {[h EXCEPT !.in_progress = i]}
         ELSE UNION {IF Failed(c.ret) THEN {[c EXCEPT !.in_progress = i]}
                     ELSE PacketLoop([c EXCEPT !.next_response_ = @ + 1])
                     : c \in BufferWriteBytesContent(h, i)}
         : h \in BufferWriteBytesHeader(w, i)}

WritePackets(w) ==
  UNION {
    UNION {
      IF Failed(p.ret) THEN {p}
      ELSE LET d == [p EXCEPT !.responses = <<>>, !.headers = <<>>,
                              !.header_once = @ /\ \A k \in 1..Len(p.headers) :
                                                     p.headers[k] = 1,
                              !.next_response_ = 0]
           IN IF d.flush_flag
              THEN FlushWriteBuffer(Logged(d, <<"GetFlushFlag", "set">>))
              ELSE {Return([d EXCEPT !.flush_flag = FALSE], "WRITE_COMPLETE")}
      : p \in PacketLoop(w0)}
    : w0 \in (IF w.write_blocked THEN FlushWriteBuffer(w) ELSE {w})}

-----------------------------------------------------------------------------
(* FillReadBuffer *)

\* what read / SSL_read may answer when asked for up to CAP - buf_size bytes
ReadOutcomes(w) ==
  IF ~MayCall(w) THEN {}
  ELSE {<<"bytes", n>> : n \in 1..Min(CAP - w.rbuf.buf_size, Len(w.inbound))}
       \cup (IF w.inbound = <<>> THEN {<<"EOF", 0>>} ELSE {})
       \cup (IF w.conn_SSL_context
             THEN {<<"WANT_READ", 0>>, <<"WANT_WRITE", 0>>, <<"EINTR", 0>>,
                   <<"FATAL", 0>>}
             ELSE {<<"EAGAIN", 0>>, <<"EINTR", 0>>, <<"FATAL", 0>>})

\* read(fd, rbuf_.GetPtr(buf_size), room) / SSL_read(...) returned n > 0
Received(w, n) ==
  LET at == w.rbuf.buf_size
  IN [w EXCEPT !.rbuf.buf = [i \in 0..(CAP - 1) |->
                               IF i >= at /\ i < at + n
                               THEN w.inbound[i - at + 1] ELSE @[i]],
               !.rbuf.buf_size = @ + n,
               !.inbound = SubSeq(@, n + 1, Len(@))]

\* PreRead emptying the consumed buffer without taking the cursor back
PreRead_KeepsCursor(w) ==
  IF w.read_blocked THEN w
  ELSE IF w.rbuf.buf_ptr = w.rbuf.buf_size THEN [w EXCEPT !.rbuf.buf_size = 0]
  ELSE w

\* PreRead emptying a full buffer whatever is left to consume in it
PreRead_ResetsWhenFull(w) ==
  IF w.read_blocked THEN w
  ELSE IF w.rbuf.buf_ptr = w.rbuf.buf_size \/ w.rbuf.buf_size = CAP
       THEN RbufReset(w)
       ELSE w

\* the reset and the compaction before the read loop
PreRead(w) ==
  IF w.read_blocked THEN w
  ELSE
    LET w1 == IF w.rbuf.buf_ptr = w.rbuf.buf_size THEN RbufReset(w) ELSE w
    IN IF w1.rbuf.buf_ptr < w1.rbuf.buf_size /\ w1.rbuf.buf_size = CAP
       THEN LET unprocessed_len == w1.rbuf.buf_size - w1.rbuf.buf_ptr
            IN [Logged(w1, <<"memmove", "">>) EXCEPT
                  !.rbuf.buf = [i \in 0..(CAP - 1) |->
                                  IF i < unprocessed_len
                                  THEN @[w1.rbuf.buf_ptr + i] ELSE @[i]],
                  !.rbuf.buf_ptr = 0,
                  !.rbuf.buf_size = unprocessed_len]
       ELSE w1

RECURSIVE ReadLoop(_, _)

\* the loop not clearing the two blocked flags before SSL_read
ReadLoop_KeepsFlags(w, result) ==
  IF w.rbuf.buf_size = CAP THEN {Return(w, result)}
  ELSE UNION {
    LET w0 == Met(w, o)
    IN IF w.conn_SSL_context
       THEN LET w1 == [w0 EXCEPT !.last_SSL_read = WouldBlockKind(o)]
            IN CASE o[1] = "bytes" -> ReadLoop(Received(w1, o[2]), "PROCEED")
                 [] o[1] = "EOF" -> {Return(w1, "FINISH")}
                 [] o[1] = "WANT_READ" ->
                      {Return([w1 EXCEPT !.read_blocked = TRUE], "NEED_DATA")}
                 [] o[1] = "WANT_WRITE" ->
                      {Return([w1 EXCEPT !.read_blocked_on_write = TRUE], "NEED_DATA")}
                 [] o[1] = "EINTR" -> ReadLoop(w1, result)
                 [] OTHER -> {Return(w1, "ERROR")}
       ELSE CASE o[1] = "bytes" -> ReadLoop(Received(w0, o[2]), "PROCEED")
              [] o[1] = "EOF" -> {Return(w0, "FINISH")}
              [] o[1] = "EAGAIN" -> {Return(w0, result)}
              [] o[1] = "EINTR" -> ReadLoop(w0, result)
              [] OTHER -> {Return(w0, "ERROR")}
    : o \in ReadOutcomes(w) }

\* the while (done == false) loop; result is its local variable
ReadLoop(w, result) ==
  IF w.rbuf.buf_size = CAP THEN {Return(w, result)}
  ELSE UNION {
    LET w0 == Met(w, o)
    IN IF w.conn_SSL_context
       THEN LET w1 == [w0 EXCEPT !.read_blocked_on_write = FALSE,
                                 !.read_blocked = FALSE,
                                 !.last_SSL_read = WouldBlockKind(o)]
            IN CASE o[1] = "bytes" -> ReadLoop(Received(w1, o[2]), "PROCEED")
                 [] o[1] = "EOF" -> {Return(w1, "FINISH")}
                 [] o[1] = "WANT_READ" ->
                      {Return([w1 EXCEPT !.read_blocked = TRUE], "NEED_DATA")}
                 [] o[1] = "WANT_WRITE" ->
                      {Return([w1 EXCEPT !.read_blocked_on_write = TRUE], "NEED_DATA")}
                 [] o[1] = "EINTR" -> ReadLoop(w1, result)
                 [] OTHER -> {Return(w1, "ERROR")}
       ELSE CASE o[1] = "bytes" -> ReadLoop(Received(w0, o[2]), "PROCEED")
              [] o[1] = "EOF" -> {Return(w0, "FINISH")}
              [] o[1] = "EAGAIN" -> {Return(w0, result)}
              [] o[1] = "EINTR" -> ReadLoop(w0, result)
              [] OTHER -> {Return(w0, "ERROR")}
    : o \in ReadOutcomes(w) }

\* FillReadBuffer whose interrupted read puts result back at NEED_DATA
FillReadBuffer_InterruptForgets(w) ==
  {IF "EINTR" \in x.io /\ x.ret = "PROCEED" THEN Return(x, "NEED_DATA") ELSE x
   : x \in ReadLoop(PreRead(w), "NEED_DATA")}

FillReadBuffer(w) == ReadLoop(PreRead(w), "NEED_DATA")

-----------------------------------------------------------------------------
(* The framer: ReadStartupPacketHeader, ReadPacket, ProcessInitial *)

EmptyPacket ==
  [msg_type |-> 0, len |-> 0, buf |-> <<>>, is_extended |-> FALSE,
   header_parsed |-> FALSE, is_initialized |-> FALSE]

\* Buffer::IsReadDataAvailable
IsReadDataAvailable(rbuf, bytes) == rbuf.buf_ptr + bytes <= rbuf.buf_size

\* Buffer::GetUInt32BigEndian, at offset at
GetUInt32BigEndian(rbuf, at) ==
  rbuf.buf[at] * 16777216 + rbuf.buf[at + 1] * 65536
    + rbuf.buf[at + 2] * 256 + rbuf.buf[at + 3]

\* v - sizeof(uint32_t) in size_t: below zero it wraps to the top of the range
\* (the range is 31 bits wide here, the widest TLC's integers hold)
MinusLengthField(v) == IF v >= 4 THEN v - 4 ELSE (v - 4) + 2147483647 + 1

\* InputPacket::ReserveExtendedBuffer: reserve(len) throws beyond max_size
TooBigToReserve(len) == len >= 2147483644

\* ReadStartupPacketHeader taking a payload of the buffer's size for extended
ReadStartupPacketHeader_ExtendedAtCapacity(w) ==
  IF ~IsReadDataAvailable(w.rbuf, 4) THEN Return(w, "false")
  ELSE
    LET len == MinusLengthField(GetUInt32BigEndian(w.rbuf, w.rbuf.buf_ptr))
        ext == len >= CAP
    IN IF ext /\ TooBigToReserve(len)
       THEN Return([w EXCEPT !.initial_packet.len = len,
                             !.initial_packet.is_extended = TRUE],
                   "THROW")
       ELSE Return([w EXCEPT !.initial_packet.len = len,
                             !.initial_packet.is_extended = ext,
                             !.initial_packet.header_parsed = TRUE,
                             !.rbuf.buf_ptr = @ + 4,
                             !.header_reads = @ + 1],
                   "true")

\* returns "true", "false", or "THROW" when reserving the extended buffer throws
ReadStartupPacketHeader(w) ==
  IF ~IsReadDataAvailable(w.rbuf, 4) THEN Return(w, "false")
  ELSE
    LET len == MinusLengthField(GetUInt32BigEndian(w.rbuf, w.rbuf.buf_ptr))
        ext == len > CAP
    IN IF ext /\ TooBigToReserve(len)
       THEN Return([w EXCEPT !.initial_packet.len = len,
                             !.initial_packet.is_extended = TRUE],
                   "THROW")
       ELSE Return([w EXCEPT !.initial_packet.len = len,
                             !.initial_packet.is_extended = ext,
                             !.initial_packet.header_parsed = TRUE,
                             !.rbuf.buf_ptr = @ + 4,
                             !.header_reads = @ + 1],
                   "true")

\* PostgresProtocolHandler::ReadPacket: the payload of packet w[rpkt], whose
\* header is parsed (rpkt is "initial_packet" or "request")
ReadPacket(w, rpkt) ==
  LET pkt == w[rpkt]
      bytes_available == w.rbuf.buf_size - w.rbuf.buf_ptr
  IN IF pkt.is_extended
     THEN LET bytes_required == pkt.len - Len(pkt.buf)
              read_size == Min(bytes_available, bytes_required)
              w1 == [w EXCEPT
                       ![rpkt].buf = @ \o [k \in 1..read_size |->
                                             w.rbuf.buf[w.rbuf.buf_ptr + k - 1]],
                       !.rbuf.buf_ptr = @ + read_size]
          IN IF bytes_required > bytes_available THEN Return(w1, "false")
             ELSE Return([w1 EXCEPT ![rpkt].is_initialized = TRUE], "true")
     ELSE IF ~IsReadDataAvailable(w.rbuf, pkt.len) THEN Return(w, "false")
     ELSE Return([w EXCEPT
                    ![rpkt].buf = [k \in 1..pkt.len |->
                                     w.rbuf.buf[w.rbuf.buf_ptr + k - 1]],
                    ![rpkt].is_initialized = TRUE,
                    !.rbuf.buf_ptr = @ + pkt.len],
                 "true")

\* the packet as the protocol handler sees it
Seen(pkt) == [msg_type |-> pkt.msg_type, len |-> pkt.len, buf |-> pkt.buf]

\* the handler queues the responses q
NewBatch(w, q) ==
  [w EXCEPT !.responses = @ \o q,
            !.headers = @ \o [k \in 1..Len(q) |-> 0],
            !.expected = @ \o SerialiseAll(q, w.finish_startup_packet_)]

\* ProtocolHandler::ProcessInitialPacket: w.hin is what the handler decides
ProcessInitialPacket(w) ==
  LET w1 == [Logged(w, <<"verdict", w.hin.verdict>>)
               EXCEPT !.emitted = Append(@, Seen(w.initial_packet))]
  IN IF w.hin.verdict # "COMPLETE" THEN Return(w1, "false")
     ELSE IF w.hin.ssl
     THEN Return(NewBatch([w1 EXCEPT !.ssl_handshake_ = TRUE,
                                     !.flush_flag = w.hin.flush], w.hin.queue),
                 "true")
     ELSE Return(NewBatch([w1 EXCEPT !.finish_startup_packet_ = TRUE,
                                     !.flush_flag = w.hin.flush], w.hin.queue),
                 "true")

\* ProcessInitial parsing the header again on every entry
ProcessInitial_ReparsesHeader(w) ==
  LET h == ReadStartupPacketHeader(w)
  IN IF h.ret = "THROW" THEN h
     ELSE IF h.ret = "false" THEN Return(h, "MORE_DATA_REQUIRED")
     ELSE
       LET r == IF ~h.initial_packet.is_initialized
                THEN ReadPacket(h, "initial_packet")
                ELSE Return(h, "true")
       IN IF r.ret = "false" THEN Return(r, "MORE_DATA_REQUIRED")
          ELSE
            LET c == [r EXCEPT !.protocol_handler_ = TRUE,
                               !.handlers_made = @ + (IF r.protocol_handler_
                                                      THEN 0 ELSE 1)]
                p == ProcessInitialPacket(c)
                d == [p EXCEPT !.initial_packet = EmptyPacket]
            IN IF p.ret = "true" THEN Return(d, "COMPLETE")
               ELSE Return(d, "TERMINATE")

\* ProcessInitial creating the protocol handler before it reads the packet
ProcessInitial_HandlerFirst(w) ==
  LET c == [w EXCEPT !.protocol_handler_ = TRUE,
                     !.handlers_made = @ + (IF w.protocol_handler_ THEN 0 ELSE 1)]
      h == IF ~c.initial_packet.header_parsed
           THEN ReadStartupPacketHeader(c)
           ELSE Return(c, "true")
  IN IF h.ret = "THROW" THEN h
     ELSE IF h.ret = "false" THEN Return(h, "MORE_DATA_REQUIRED")
     ELSE
       LET r == IF ~h.initial_packet.is_initialized
                THEN ReadPacket(h, "initial_packet")
                ELSE Return(h, "true")
       IN IF r.ret = "false" THEN Return(r, "MORE_DATA_REQUIRED")
          ELSE
            LET p == ProcessInitialPacket(r)
                d == [p EXCEPT !.initial_packet = EmptyPacket]
            IN IF p.ret = "true" THEN Return(d, "COMPLETE")
               ELSE Return(d, "TERMINATE")

ProcessInitial(w) ==
  LET h == IF ~w.initial_packet.header_parsed
           THEN ReadStartupPacketHeader(w)
           ELSE Return(w, "true")
  IN IF h.ret = "THROW" THEN h
     ELSE IF h.ret = "false" THEN Return(h, "MORE_DATA_REQUIRED")
     ELSE
       LET r == IF ~h.initial_packet.is_initialized
                THEN ReadPacket(h, "initial_packet")
                ELSE Return(h, "true")
       IN IF r.ret = "false" THEN Return(r, "MORE_DATA_REQUIRED")
          ELSE
            LET c == [r EXCEPT !.protocol_handler_ = TRUE,
                               !.handlers_made = @ + (IF r.protocol_handler_
                                                      THEN 0 ELSE 1)]
                p == ProcessInitialPacket(c)
                d == [p EXCEPT !.initial_packet = EmptyPacket]
            IN IF p.ret = "true" THEN Return(d, "COMPLETE")
               ELSE Return(d, "TERMINATE")

-----------------------------------------------------------------------------
(* The protocol handler and the traffic cop (external collaborators) *)

\* the steady-state header [type:1][length:4]
ReadPacketHeader(w) ==
  IF ~IsReadDataAvailable(w.rbuf, 1 + 4) THEN Return(w, "false")
  ELSE
    LET len == MinusLengthField(GetUInt32BigEndian(w.rbuf, w.rbuf.buf_ptr + 1))
        ext == len > CAP
    IN IF ext /\ TooBigToReserve(len) THEN Return(w, "THROW")
       ELSE Return([w EXCEPT !.request.msg_type = w.rbuf.buf[w.rbuf.buf_ptr],
                             !.request.len = len,
                             !.request.is_extended = ext,
                             !.request.header_parsed = TRUE,
                             !.rbuf.buf_ptr = @ + 5],
                   "true")

\* ProtocolHandler::Process: frames one request; w.hin is what the handler
\* decides for a complete request
HandlerProcess(w) ==
  LET h == IF ~w.request.header_parsed THEN ReadPacketHeader(w)
           ELSE Return(w, "true")
  IN IF h.ret = "THROW" THEN h
     ELSE IF h.ret = "false" THEN Return(h, "MORE_DATA_REQUIRED")
     ELSE
       LET r == ReadPacket(h, "request")
       IN IF r.ret = "false" THEN Return(r, "MORE_DATA_REQUIRED")
          ELSE
            LET d == [Logged(r, <<"verdict", w.hin.verdict>>)
                        EXCEPT !.emitted = Append(@, Seen(r.request)),
                               !.request = EmptyPacket]
            IN CASE w.hin.verdict = "COMPLETE" ->
                      Return(NewBatch([d EXCEPT !.flush_flag = w.hin.flush],
                                      w.hin.queue),
                             "COMPLETE")
                 [] w.hin.verdict = "PROCESSING" ->
                      Return([d EXCEPT !.in_flight = TRUE, !.queuing = TRUE],
                             "PROCESSING")
                 [] OTHER -> Return(d, "TERMINATE")

\* ProtocolHandler::GetResult: the responses of the completed query
HandlerGetResult(w) == NewBatch([w EXCEPT !.flush_flag = w.hin.flush], w.hin.queue)

\* ProtocolHandler::Reset
HandlerReset(w) ==
  [w EXCEPT !.responses = <<>>, !.headers = <<>>, !.request = EmptyPacket,
            !.flush_flag = FALSE]

\* TrafficCop::Reset: cancels the work in flight
TrafficCopReset(w) ==
  [w EXCEPT !.in_flight = FALSE, !.queuing = FALSE]

-----------------------------------------------------------------------------
(* Process, ProcessWrite, GetResult *)

AcceptOutcomes(w) ==
  IF ~MayCall(w) THEN {}
  ELSE {<<"OK", 0>>, <<"WANT_READ", 0>>, <<"WANT_WRITE", 0>>, <<"FATAL", 0>>}

\* the handshake of Process: SSL_new, SSL_set_fd, SSL_accept
\* (PL_ASSERT is taken as compiled out, as in a release build: a failed
\* SSL_accept returns ERROR)
SslHandshake(w) ==
  IF ~w.ssl_sent_ THEN {Return(w, "ok")}
  ELSE {LET w1 == Logged(Met([w EXCEPT !.conn_SSL_context = TRUE], o),
                         <<"SSL_accept", "">>)
        IN IF o[1] = "OK" THEN Return([w1 EXCEPT !.ssl_sent_ = FALSE], "ok")
           ELSE Return(w1, "ERROR")
        : o \in AcceptOutcomes(w)}

Process(w) ==
  IF ~w.protocol_handler_
  THEN {IF s.ret = "ERROR" THEN s
        ELSE LET p == ProcessInitial(s)
             IN CASE p.ret = "COMPLETE" -> Return(p, "PROCEED")
                  [] p.ret = "MORE_DATA_REQUIRED" -> Return(p, "NEED_DATA")
                  [] p.ret = "TERMINATE" -> Return(p, "ERROR")
                  [] p.ret = "THROW" -> p
                  [] OTHER -> Return(p, "ERROR")
        : s \in SslHandshake(w)}
  ELSE LET s == HandlerProcess(w)
       IN {CASE s.ret = "MORE_DATA_REQUIRED" -> Return(s, "NEED_DATA")
             [] s.ret = "COMPLETE" -> Return(s, "PROCEED")
             [] s.ret = "PROCESSING" ->
                  Return(Logged(EventDelNetwork(s), <<"event_del", "">>), "GET_RESULT")
             [] s.ret = "TERMINATE" -> Return(s, "ERROR")
             [] s.ret = "THROW" -> s
             [] OTHER -> Return(s, "ERROR")}

\* ProcessWrite taking a write error for a socket that is not ready
ProcessWrite_ErrorRetries(w) ==
  {CASE x.ret = "WRITE_COMPLETE" -> Return(UpdateEvent(x, EV_READ_PERSIST), "PROCEED")
     [] OTHER -> Return(x, "NONE")
   : x \in WritePackets(w)}

ProcessWrite(w) ==
  {CASE x.ret = "WRITE_COMPLETE" -> Return(UpdateEvent(x, EV_READ_PERSIST), "PROCEED")
     [] x.ret = "WRITE_NOT_READY" -> Return(x, "NONE")
     [] OTHER -> Return(x, "ERROR")
   : x \in WritePackets(w)}

\* GetResult asking the handler for the responses before it adds the event
GetResult_HandlerFirst(w) ==
  LET w1 == Logged(HandlerGetResult(w), <<"GetResult", "">>)
      w2 == Logged(EventAddNetwork(w1), <<"event_add", w1.network_event.flags>>)
      w3 == Logged([w2 EXCEPT !.queuing = FALSE], <<"SetQueuing", "">>)
  IN {Return(w3, "PROCEED")}

GetResult(w) ==
  LET w1 == Logged(EventAddNetwork(w), <<"event_add", w.network_event.flags>>)
      w2 == Logged(HandlerGetResult(w1), <<"GetResult", "">>)
      w3 == Logged([w2 EXCEPT !.queuing = FALSE], <<"SetQueuing", "">>)
  IN {Return(w3, "PROCEED")}

-----------------------------------------------------------------------------
(* CloseSocket, Reset, Init *)

\* Reset leaving the read buffer as it is
Reset_KeepsReadBuffer(w) ==
  LET w1 == WbufReset(w)
      w2 == IF w1.protocol_handler_ THEN HandlerReset(w1) ELSE w1
      w3 == [TrafficCopReset(w2) EXCEPT !.next_response_ = 0,
                                        !.ssl_handshake_ = FALSE,
                                        !.finish_startup_packet_ = FALSE,
                                        !.initial_packet = EmptyPacket]
      w4 == IF w3.conn_SSL_context
            THEN Logged([w3 EXCEPT !.conn_SSL_context = FALSE,
                                   !.last_SSL_read = "", !.last_SSL_write = ""],
                        <<"SSL_free", "">>)
            ELSE w3
  IN [w4 EXCEPT !.write_blocked_on_read = FALSE,
                !.read_blocked_on_write = FALSE,
                !.read_blocked = FALSE,
                !.write_blocked = FALSE]

Reset(w) ==
  LET w1 == WbufReset(RbufReset(w))
      w2 == IF w1.protocol_handler_ THEN HandlerReset(w1) ELSE w1
      w3 == [TrafficCopReset(w2) EXCEPT !.next_response_ = 0,
                                        !.ssl_handshake_ = FALSE,
                                        !.finish_startup_packet_ = FALSE,
                                        !.initial_packet = EmptyPacket]
      w4 == IF w3.conn_SSL_context
            THEN Logged([w3 EXCEPT !.conn_SSL_context = FALSE,
                                   !.last_SSL_read = "", !.last_SSL_write = ""],
                        <<"SSL_free", "">>)
            ELSE w3
  IN [w4 EXCEPT !.write_blocked_on_read = FALSE,
                !.read_blocked_on_write = FALSE,
                !.read_blocked = FALSE,
                !.write_blocked = FALSE]

ShutdownOutcomes(w) ==
  IF ~MayCall(w) THEN {}
  ELSE {<<"OK", 0>>, <<"NOT_FINISHED", 0>>, <<"WANT_READ", 0>>, <<"WANT_WRITE", 0>>,
        <<"FATAL", 0>>}

\* the while (1) loop around SSL_shutdown
RECURSIVE ShutdownLoop(_)
ShutdownLoop(w) ==
  LET met == {o[1] : o \in ShutdownOutcomes(w)}
      w1 == Logged(Spent(w), <<"SSL_shutdown", "">>)
  IN (IF met \cap {"OK", "FATAL"} # {} THEN {w1} ELSE {})
       \cup (IF met \cap {"NOT_FINISHED", "WANT_READ", "WANT_WRITE"} # {}
             THEN UNION {ShutdownLoop(n) : n \in {w1}} ELSE {})

\* close(): interrupted, the descriptor is released ("EINTR") or not
\* ("EINTR_OPEN"), as the platform has it; on a released descriptor it fails
CloseOutcomes(w) ==
  IF ~MayCall(w) THEN {}
  ELSE IF w.fd_open
       THEN {<<"OK", 0>>, <<"EINTR", 0>>, <<"EINTR_OPEN", 0>>, <<"FATAL", 0>>}
       ELSE {<<"EINTR", 0>>, <<"FATAL", 0>>}

\* the for (;;) loop around close(sock_fd_)
RECURSIVE CloseLoop(_)
CloseLoop(w) ==
  LET met == {o[1] : o \in CloseOutcomes(w)}
      w1 == Logged(Spent(w), <<"close", "">>)
      w2 == [w1 EXCEPT !.fd_open = FALSE, !.closes = @ + 1]
  IN (IF met \cap {"OK", "FATAL"} # {} THEN {Return(w2, "NONE")} ELSE {})
       \cup (IF "EINTR" \in met THEN UNION {CloseLoop(n) : n \in {w2}} ELSE {})
       \cup (IF "EINTR_OPEN" \in met THEN UNION {CloseLoop(n) : n \in {w1}} ELSE {})

\* event_del(workpool_event): the event is no longer pending nor active, a
\* wake raised and not yet delivered is gone
EventDelWorkpool(w) ==
  IF w.workpool_event.added
  THEN [w EXCEPT !.work_events = @ - 1, !.workpool_event.added = FALSE,
                 !.wake_pending = FALSE]
  ELSE [w EXCEPT !.wake_pending = FALSE]

\* (each intermediate world is bound once, as the element of a singleton, so
\* that the loops after it do not evaluate it again)
CloseSocket(w) ==
  LET w1 == Logged(EventDelWorkpool(EventDelNetwork(w)), <<"event_del", "">>)
  IN UNION {UNION {CloseLoop(r) : r \in {Reset(s)}}
            : s \in UNION {IF w2.conn_SSL_context THEN ShutdownLoop(w2) ELSE {w2}
                           : w2 \in {[w1 EXCEPT !.state = "CLOSED"]}}}

InitConnection(w, event_flags) ==
  LET w1 == [HandlerReset(w) EXCEPT !.protocol_handler_ = FALSE]
      w2 == RegisterEvent(IF w1.network_event.null THEN w1 ELSE UnregisterEvent(w1),
                          event_flags)
      w3 == [EventDelWorkpool(w2) EXCEPT
               !.work_events = @ + 1,
               !.workpool_event = [null |-> FALSE, added |-> TRUE]]
  IN [w3 EXCEPT !.state = "READ"]

-----------------------------------------------------------------------------
(* Inputs *)

NoInput == [verdict |-> "NONE", ssl |-> FALSE, flush |-> FALSE, queue |-> <<>>]

\* the response queues the protocol handler produces
ResponseQueues ==
  { <<>>,
    <<OutputPacket(82, 1, 1)>> }

\* what ProcessInitialPacket decides: startup done, SSL request answered 'S',
\* or rejected
StartupInputs ==
  {[verdict |-> "COMPLETE", ssl |-> FALSE, flush |-> f, queue |-> q]
     : f \in BOOLEAN, q \in ResponseQueues}
  \cup {[verdict |-> "COMPLETE", ssl |-> TRUE, flush |-> TRUE,
         queue |-> <<OutputPacket(83, 1, 0)>>],
        [NoInput EXCEPT !.verdict = "TERMINATE"]}

\* what Process decides for a complete request
RequestInputs ==
  {[verdict |-> "COMPLETE", ssl |-> FALSE, flush |-> f, queue |-> q]
     : f \in BOOLEAN, q \in ResponseQueues}
  \cup {[NoInput EXCEPT !.verdict = "PROCESSING"],
        [NoInput EXCEPT !.verdict = "TERMINATE"]}

\* what GetResult produces
ResultInputs ==
  {[verdict |-> "COMPLETE", ssl |-> FALSE, flush |-> f, queue |-> q]
     : f \in BOOLEAN, q \in ResponseQueues}

\* the bytes a client sends over one connection
InboundStreams ==
  { <<0, 0, 0, 5, 1>> \o <<81, 0, 0, 0, 4>>,
    <<0, 0, 0, 2>> }

-----------------------------------------------------------------------------
(* The state machine *)

\* the world a call starts in
Begin(call, junk, hin) ==
  (conn @@ handler @@ env
     @@ [hist EXCEPT !.call = call, !.io = {}, !.log = <<>>, !.ret = "NONE",
                     !.in_progress = 0])
    @@ [junk |-> junk, hin |-> hin, calls |-> 0, trace |-> <<>>]

Install(w) ==
  /\ conn' = [f \in DOMAIN conn |-> w[f]]
  /\ handler' = [f \in DOMAIN handler |-> w[f]]
  /\ env' = [f \in DOMAIN env |-> w[f]]
  /\ hist' = [f \in DOMAIN hist |-> w[f]]

\* the transition graph: the next state and whether the machine goes on at once
Delta(state, t) ==
  CASE state = "READ" /\ t = "PROCEED" -> <<"PROCESS", TRUE>>
    [] state = "READ" /\ t = "NEED_DATA" -> <<"READ", FALSE>>
    [] state = "READ" /\ t \in {"FINISH", "ERROR"} -> <<"CLOSING", TRUE>>
    [] state = "PROCESS" /\ t = "PROCEED" -> <<"WRITE", TRUE>>
    [] state = "PROCESS" /\ t = "NEED_DATA" -> <<"READ", TRUE>>
    [] state = "PROCESS" /\ t = "GET_RESULT" -> <<"WAIT_RESULT", FALSE>>
    [] state = "PROCESS" /\ t \in {"FINISH", "ERROR"} -> <<"CLOSING", TRUE>>
    [] state = "WRITE" /\ t = "PROCEED" -> <<"READ", TRUE>>
    [] state = "WRITE" /\ t = "NONE" -> <<"WRITE", FALSE>>
    [] state = "WRITE" /\ t \in {"FINISH", "ERROR"} -> <<"CLOSING", TRUE>>
    [] state = "WAIT_RESULT" /\ t = "PROCEED" -> <<"WRITE", TRUE>>
    [] state = "WAIT_RESULT" /\ t \in {"FINISH", "ERROR"} -> <<"CLOSING", TRUE>>
    [] OTHER -> <<state, FALSE>>

\* the call returned w.ret in state w.state.  An exception that leaves the call
\* ends the process; so does, for the model, a call that ran into undefined
\* behaviour (w.ub), past which nothing can be said of the process
Transit(w) ==
  IF w.ret = "THROW" \/ w.ub THEN [w EXCEPT !.alive = FALSE, !.active = FALSE]
  ELSE LET d == Delta(w.state, w.ret)
       IN [w EXCEPT !.state = d[1], !.active = d[2]]

Running(state) == env.alive /\ env.active /\ conn.state = state

OnNetworkEvent ==
  /\ env.alive /\ ~env.active /\ conn.network_event.added
  /\ env' = [env EXCEPT !.active = TRUE]
  /\ UNCHANGED <<conn, handler, hist>>

\* the query engine finishes the request it holds and raises the wake handle
WorkerDone ==
  /\ env.alive /\ handler.in_flight
  /\ handler' = [handler EXCEPT !.in_flight = FALSE]
  /\ env' = [env EXCEPT !.wake_pending = TRUE]
  /\ UNCHANGED <<conn, hist>>

OnWorkpoolEvent ==
  /\ env.alive /\ ~env.active /\ env.wake_pending
  /\ env' = [env EXCEPT !.active = TRUE, !.wake_pending = FALSE]
  /\ UNCHANGED <<conn, handler, hist>>

StepRead ==
  /\ Running("READ")
  /\ \E x \in FillReadBuffer(Begin("FillReadBuffer", 0, NoInput)) :
       Install(Transit(x))

StepProcess ==
  /\ Running("PROCESS")
  /\ \E hin \in (IF conn.protocol_handler_ THEN RequestInputs ELSE StartupInputs) :
       \E x \in Process(Begin("Process", 0, hin)) : Install(Transit(x))

StepWrite ==
  /\ Running("WRITE")
  /\ \E junk \in JunkBytes :
       \E x \in ProcessWrite(Begin("ProcessWrite", junk, NoInput)) :
         Install(Transit(x))

StepGetResult ==
  /\ Running("WAIT_RESULT")
  /\ \E hin \in ResultInputs :
       \E x \in GetResult(Begin("GetResult", 0, hin)) : Install(Transit(x))

StepClose ==
  /\ Running("CLOSING")
  /\ \E x \in CloseSocket(Begin("CloseSocket", 0, NoInput)) :
       Install([x EXCEPT !.active = FALSE])

\* the CLOSING action invoked once more on a closed handle
CloseAgain ==
  /\ env.alive /\ ~env.active /\ conn.state = "CLOSED" /\ hist.closes < 2
  /\ \E x \in CloseSocket(Begin("CloseSocket", 0, NoInput)) :
       Install([x EXCEPT !.active = FALSE, !.again = TRUE])

\* hist: what an observer of the run keeps, no field of the program.
\*   expected      the serialised responses queued so far
\*   emitted       the packets handed to the protocol handler so far
\*   headers       per queued response, the times its header was buffered
\*   header_once   every response cleared from the queue had it buffered once
\*   unsent        the indices of wbuf_.buf holding appended, unsent bytes
\*   handed_ok     every region handed to the socket held only such bytes
\*   clobbered     an unsent byte was overwritten
\*   ub            a copy or a system call went outside an array
\*   overread      a copy of payload bytes read past the end of the payload
\*   call, ret     the last member-function call and what it returned
\*   io, log       the system-call outcomes and the library calls of that call
\*   header_reads, handlers_made, closes, again   counts over the connection
\*   stream        the bytes the client sends over the connection
\*   steady, sent  whether the handle began past the startup, and the packet
\*                 the stream was serialised from (read path on its own)
\*   cancelled     the dispatcher closed the handle while it waited for a result
\*   dropped       a flush emptied the write buffer over appended, unsent bytes
\*   last_SSL_read, last_SSL_write   what the last SSL_read and the last
\*                 SSL_write on the TLS session left to wait for
\*   in_progress   the place in the queue (from 1) of the response whose
\*                 buffering ended the packet loop of the call early, or 0
FreshHist ==
  [expected |-> <<>>, emitted |-> <<>>, headers |-> <<>>, unsent |-> {},
   handed_ok |-> TRUE, clobbered |-> FALSE, ub |-> FALSE, log |-> <<>>,
   io |-> {}, call |-> "Init", ret |-> "NONE",
   header_reads |-> 0, handlers_made |-> 0, closes |-> 0, again |-> FALSE,
   stream |-> <<>>, steady |-> FALSE, sent |-> EmptyPacket,
   cancelled |-> FALSE, header_once |-> TRUE, overread |-> FALSE,
   dropped |-> FALSE, in_progress |-> 0,
   last_SSL_read |-> "", last_SSL_write |-> ""]

\* the dispatcher takes the closed handle for a newly accepted socket
Reinit ==
  /\ env.alive /\ ~env.active /\ conn.state = "CLOSED" /\ env.inits < MaxInits
  /\ \E B \in InboundStreams, ssl \in BOOLEAN :
       LET w == Begin("Init", 0, NoInput)
           n == [w EXCEPT !.inbound = B, !.wire_out = <<>>, !.fd_open = TRUE,
                          !.ssl_sent_ = ssl, !.inits = @ + 1]
           i == InitConnection(n, EV_READ_PERSIST)
       IN /\ conn' = [f \in DOMAIN conn |-> i[f]]
          /\ handler' = [f \in DOMAIN handler |-> i[f]]
          /\ env' = [f \in DOMAIN env |-> i[f]]
          /\ hist' = [FreshHist EXCEPT !.stream = B]

\* the fields after the constructor, which calls Init(event_flags, handler)
NewConn(ssl) ==
  [state |-> "READ",
   rbuf |-> [buf |-> EmptyBuf, buf_ptr |-> 0, buf_size |-> 0],
   wbuf |-> [buf |-> EmptyBuf, buf_ptr |-> 0, buf_size |-> 0, buf_flush_ptr |-> 0],
   next_response_ |-> 0, protocol_handler_ |-> FALSE,
   initial_packet |-> EmptyPacket,
   network_event |-> [null |-> FALSE, flags |-> EV_READ_PERSIST, added |-> TRUE],
   workpool_event |-> [null |-> FALSE, added |-> TRUE],
   conn_SSL_context |-> FALSE, ssl_sent_ |-> ssl,
   ssl_handshake_ |-> FALSE, finish_startup_packet_ |-> FALSE,
   read_blocked |-> FALSE, read_blocked_on_write |-> FALSE,
   write_blocked |-> FALSE, write_blocked_on_read |-> FALSE]

NewHandler ==
  [responses |-> <<>>, flush_flag |-> FALSE, request |-> EmptyPacket,
   queuing |-> FALSE, in_flight |-> FALSE]

\* the socket, with B on its way in, and the event loop
NewEnv(B) ==
  [inbound |-> B, wire_out |-> <<>>, fd_open |-> TRUE, net_events |-> 1,
   work_events |-> 1, wake_pending |-> FALSE, active |-> FALSE, alive |-> TRUE,
   inits |-> 1, pc |-> "", shutdown_ret |-> ""]

\* the state after construction
Init ==
  /\ \E ssl \in BOOLEAN : conn = NewConn(ssl)
  /\ handler = NewHandler
  /\ \E B \in InboundStreams :
       /\ env = NewEnv(B)
       /\ hist = [FreshHist EXCEPT !.stream = B]

Next ==
  \/ OnNetworkEvent
  \/ WorkerDone
  \/ OnWorkpoolEvent
  \/ StepRead
  \/ StepProcess
  \/ StepWrite
  \/ StepGetResult
  \/ StepClose
  \/ CloseAgain
  \/ Reinit

Spec == Init /\ [][Next]_vars

-----------------------------------------------------------------------------
(* One connection from accept to close, with the scheduling the code relies *)
(* on: the state machine runs the action of the state it entered at once    *)
(* (CloseSocket in CLOSING, GetResult after the wake), the query engine     *)
(* finishes the request it took, and the dispatcher delivers the wake       *)

NextLive ==
  \/ OnNetworkEvent
  \/ WorkerDone
  \/ OnWorkpoolEvent
  \/ StepRead
  \/ StepProcess
  \/ StepWrite
  \/ StepGetResult
  \/ StepClose

Fairness ==
  /\ WF_vars(StepClose)
  /\ WF_vars(StepGetResult)
  /\ WF_vars(WorkerDone)
  /\ WF_vars(OnWorkpoolEvent)

LiveSpec == Init /\ [][NextLive]_vars /\ Fairness

-----------------------------------------------------------------------------
(* CloseSocket statement by statement: every call of SSL_shutdown is a step, *)
(* so that a loop that does not end is a behaviour.  env.pc is the place of  *)
(* the call inside CloseSocket ("" outside it), env.shutdown_ret the outcome *)
(* of the last SSL_shutdown                                                  *)

\* the dispatcher gives up a handle that waits for its result (a timeout of
\* its own): cancellation is the transition to CLOSING
Cancel ==
  /\ env.alive /\ ~env.active /\ env.pc = "" /\ conn.state = "WAIT_RESULT"
  /\ conn' = [conn EXCEPT !.state = "CLOSING"]
  /\ env' = [env EXCEPT !.active = TRUE]
  /\ hist' = [hist EXCEPT !.cancelled = TRUE]
  /\ UNCHANGED handler

\* CloseSocketEnter leaving both events as they are
CloseSocketEnter_KeepsEvents ==
  /\ Running("CLOSING") /\ env.pc = ""
  /\ LET w == Begin("CloseSocket", 0, NoInput)
     IN Install([w EXCEPT !.state = "CLOSED",
                          !.pc = IF w.conn_SSL_context THEN "SSL_shutdown"
                                 ELSE "Reset"])

\* event_del of both events, TransitState(CONN_CLOSED), the test for a session
CloseSocketEnter ==
  /\ Running("CLOSING") /\ env.pc = ""
  /\ LET w == Begin("CloseSocket", 0, NoInput)
         w1 == Logged(EventDelWorkpool(EventDelNetwork(w)), <<"event_del", "">>)
     IN Install([w1 EXCEPT !.state = "CLOSED",
                           !.pc = IF w.conn_SSL_context THEN "SSL_shutdown"
                                  ELSE "Reset"])

\* one iteration of while (1): break on 1 and on a fatal error, continue on 0
\* and on WANT_READ / WANT_WRITE
ShutdownIteration ==
  /\ env.alive /\ env.pc = "SSL_shutdown"
  /\ \E o \in ShutdownOutcomes(Begin("CloseSocket", 0, NoInput)) :
       env' = [env EXCEPT !.shutdown_ret = o[1],
                          !.pc = IF o[1] \in {"OK", "FATAL"} THEN "Reset"
                                 ELSE "SSL_shutdown"]
  /\ UNCHANGED <<conn, handler, hist>>

\* Reset(), the loop around close(sock_fd_), return
CloseSocketLeave ==
  /\ env.alive /\ env.pc = "Reset"
  /\ \E x \in UNION {CloseLoop(r)
                      : r \in {Reset([Begin("CloseSocket", 0, NoInput)
                                        EXCEPT !.log = hist.log])}} :
       Install([x EXCEPT !.active = FALSE, !.pc = "", !.shutdown_ret = ""])

NextClose ==
  \/ OnNetworkEvent
  \/ WorkerDone
  \/ OnWorkpoolEvent
  \/ StepRead
  \/ StepProcess
  \/ StepWrite
  \/ StepGetResult
  \/ Cancel
  \/ CloseSocketEnter
  \/ ShutdownIteration
  \/ CloseSocketLeave

\* CloseSocket runs on: no statement of it waits for the event loop
FairnessClose ==
  /\ WF_vars(CloseSocketEnter)
  /\ WF_vars(ShutdownIteration)
  /\ WF_vars(CloseSocketLeave)

CloseSpec == Init /\ [][NextClose]_vars /\ FairnessClose

-----------------------------------------------------------------------------
(* The write path on its own: a handle in WRITE with a queue of responses *)

\* response queues: one that fits the buffer, one whose payload overruns the
\* room its header leaves (with and without a type byte), two in a row (the
\* second flushing the first out, with and without a flush in the middle of
\* its payload), one longer than the buffer
WriteQueues ==
  { <<OutputPacket(82, 1, 1)>>,
    <<OutputPacket(82, 1, CAP - 3)>>,
    <<OutputPacket(0, 1, CAP - 3)>>,
    <<OutputPacket(82, 1, 0), OutputPacket(83, 2, 1)>>,
    <<OutputPacket(82, 1, 1), OutputPacket(83, 2, 2)>>,
    <<OutputPacket(82, 1, CAP + 1)>> }

\* PROCESS has just queued q after the startup, over a plain or a TLS socket
InitWrite ==
  /\ \E tls \in BOOLEAN :
       conn = [NewConn(FALSE) EXCEPT !.state = "WRITE",
                                     !.protocol_handler_ = TRUE,
                                     !.finish_startup_packet_ = TRUE,
                                     !.conn_SSL_context = tls]
  /\ \E q \in WriteQueues, f \in BOOLEAN :
       /\ handler = [NewHandler EXCEPT !.responses = q, !.flush_flag = f]
       /\ hist = [FreshHist EXCEPT !.expected = SerialiseAll(q, TRUE),
                                   !.headers = [k \in 1..Len(q) |-> 0],
                                   !.call = "Process"]
  /\ env = [NewEnv(<<>>) EXCEPT !.active = TRUE]

NextWrite ==
  \/ OnNetworkEvent
  \/ StepWrite

SpecWrite == InitWrite /\ [][NextWrite]_vars

-----------------------------------------------------------------------------
(* The read path on its own: one packet framed out of a stream, over the    *)
(* plain socket                                                             *)

WorldOf(c, h, e, g) ==
  (c @@ h @@ e @@ g) @@ [junk |-> 0, hin |-> [NoInput EXCEPT !.verdict = "COMPLETE"],
                         calls |-> 0, trace |-> <<>>]

\* the world at the start of the next member-function call
Fresh(w) ==
  [w EXCEPT !.io = {}, !.log = <<>>, !.ret = "NONE", !.calls = 0, !.in_progress = 0,
            !.trace = <<>>]

\* a handle past the startup (steady) or before it
ConnAt(steady) ==
  [NewConn(FALSE) EXCEPT !.protocol_handler_ = steady,
                         !.finish_startup_packet_ = steady]

\* the bytes WritePackets puts on a socket that takes all it is handed, for
\* the queue <<p>> with the flush flag set
Wire(p) ==
  LET w == WorldOf(ConnAt(TRUE),
                   [NewHandler EXCEPT !.responses = <<p>>, !.flush_flag = TRUE],
                   NewEnv(<<>>), [FreshHist EXCEPT !.headers = <<0>>])
  IN (CHOOSE x \in WritePackets(w) :
        x.ret = "WRITE_COMPLETE" /\ x.io = {"bytes"}).wire_out

\* packets sent through the writer and back through the framer: without and
\* with a type byte; empty, short, needing the compaction, filling the buffer,
\* longer than the buffer
FramePackets ==
  {OutputPacket(t, 1, n) : t \in {0, 82}, n \in {0, 1, CAP - 3, CAP, CAP + 1}}

\* streams that are no packet: a cut header, a length below four, a cut payload
BrokenStreams == { <<0, 0, 0>>, <<0, 0, 0, 2>>, <<0, 0, 0, 6, 1>>, <<81, 0, 0, 0, 5>> }

InitFrame ==
  /\ \E steady \in BOOLEAN :
       /\ conn = ConnAt(steady)
       /\ \/ \E p \in FramePackets :
               /\ env = NewEnv(Wire(p))
               /\ hist = [FreshHist EXCEPT !.stream = Wire(p), !.steady = steady,
                                           !.sent = [EmptyPacket EXCEPT
                                                       !.msg_type = p.msg_type,
                                                       !.len = p.len,
                                                       !.buf = p.buf,
                                                       !.is_initialized = TRUE]]
          \/ \E B \in BrokenStreams :
               /\ env = NewEnv(B)
               /\ hist = [FreshHist EXCEPT !.stream = B, !.steady = steady]
  /\ handler = NewHandler

NextFrame ==
  \/ OnNetworkEvent
  \/ StepRead
  \/ StepProcess

SpecFrame == InitFrame /\ [][NextFrame]_vars

-----------------------------------------------------------------------------
(* FillReadBuffer on its own: entered in READ with the read buffer in any    *)
(* state its two indices allow, as a handler that consumes as much or as     *)
(* little as it likes may leave it                                           *)

InitFill ==
  /\ \E tls \in BOOLEAN, size \in 0..CAP :
       \E ptr \in 0..size :
         conn = [NewConn(FALSE) EXCEPT !.conn_SSL_context = tls,
                                       !.rbuf.buf_size = size,
                                       !.rbuf.buf_ptr = ptr]
  /\ handler = NewHandler
  /\ \E B \in InboundStreams :
       /\ env = [NewEnv(B) EXCEPT !.active = TRUE]
       /\ hist = [FreshHist EXCEPT !.stream = B]

NextFill ==
  \/ OnNetworkEvent
  \/ StepRead

SpecFill == InitFill /\ [][NextFill]_vars

-----------------------------------------------------------------------------
(* The two functions that talk to the socket, over their entry states: a    *)
(* handle entering READ with the read buffer in any state, or entering      *)
(* WRITE with a queue of responses                                          *)

InitIO == InitFill \/ InitWrite

NextIO ==
  \/ OnNetworkEvent
  \/ StepRead
  \/ StepWrite

SpecIO == InitIO /\ [][NextIO]_vars

\* a FillReadBuffer call whose reads take all the bytes there are
GreedyFill(w) ==
  CHOOSE x \in FillReadBuffer(w) :
    /\ x.io \subseteq {"bytes", "EAGAIN"}
    /\ \A y \in FillReadBuffer(w) : Len(x.inbound) <= Len(y.inbound)

\* the packets emitted when every read delivers all that is left of the
\* stream (the whole stream in one read when it fits): READ, then PROCESS, and
\* READ again on NEED_DATA, until a packet is out or no byte is left
RECURSIVE GreedyRun(_)
GreedyRun(w) ==
  LET r == GreedyFill(Fresh(w))
  IN IF r.ret # "PROCEED" THEN r.emitted
     ELSE LET p == CHOOSE x \in Process(Fresh(r)) : TRUE
          IN IF p.ret = "NEED_DATA" THEN GreedyRun(p) ELSE p.emitted

\* the whole stream is read and the handle waits in READ for more
Quiet == conn.state = "READ" /\ ~env.active /\ env.alive /\ env.inbound = <<>>

-----------------------------------------------------------------------------
(* Properties *)

IsPrefix(s, t) == Len(s) <= Len(t) /\ s = SubSeq(t, 1, Len(s))

\* C1: across the re-entries of WritePackets after a would-block write, the
\* bytes the socket has accepted are, in order, the serialised responses of
\* the queue: at every moment a prefix of their concatenation, nothing lost,
\* duplicated or overwritten
C1_StreamIntact == IsPrefix(env.wire_out, hist.expected)

\* C2: the write buffer keeps 0 <= flush cursor, flush cursor + outstanding
\* size <= CAP, and every region handed to the socket is inside the buffer and
\* holds only bytes that were appended and not yet sent
C2_WriteBufferBounds ==
  /\ 0 <= conn.wbuf.buf_flush_ptr
  /\ conn.wbuf.buf_flush_ptr + conn.wbuf.buf_size <= CAP
  /\ hist.handed_ok
\* the current call made the library call what
Called(what) == \E k \in 1..Len(hist.log) : hist.log[k] = what

\* C3: after FillReadBuffer (with its reset and its compaction),
\* ReadStartupPacketHeader and Reset, under any read outcomes, the read buffer
\* keeps 0 <= buf_ptr <= buf_size <= CAP
C3_ReadBufferBounds ==
  /\ 0 <= conn.rbuf.buf_ptr
  /\ conn.rbuf.buf_ptr <= conn.rbuf.buf_size
  /\ conn.rbuf.buf_size <= CAP

\* FillReadBuffer has compacted a full, partly consumed buffer behind a parsed
\* startup header and read into the room it made
C3_Witness ==
  /\ hist.call = "FillReadBuffer" /\ Called(<<"memmove", "">>)
  /\ hist.header_reads > 0
  /\ "bytes" \in hist.io
  /\ conn.rbuf.buf_ptr = 0 /\ conn.rbuf.buf_size > 0

\* C4: a handle in WAIT_RESULT has no registered network event; a handle in
\* READ, PROCESS, WRITE or CLOSING has exactly one, whatever the number of
\* UpdateEvent rearms and of Init calls before
C4_WakeExclusivity ==
  /\ conn.state = "WAIT_RESULT" => env.net_events = 0
  /\ conn.state \in {"READ", "PROCESS", "WRITE", "CLOSING"} => env.net_events = 1

\* a handle initialised for the second time waits for a result, its network
\* event deleted, after ProcessWrite rearmed the event
C4_Witness ==
  /\ conn.state = "WAIT_RESULT" /\ env.net_events = 0
  /\ env.inits > 1
  /\ Len(env.wire_out) > 0

\* C5: over any sequence of operations, a second CloseSocket included, the
\* socket descriptor is closed at most once
C5_ClosedAtMostOnce == hist.closes <= 1

\* C8: a FillReadBuffer call in which some read returned bytes and none
\* reported end of file or a fatal error returns PROCEED, on the plain and on
\* the TLS transport, also when a later read of the call would block
C8_BytesMeanProceed ==
  (/\ hist.call = "FillReadBuffer"
   /\ "bytes" \in hist.io
   /\ "EOF" \notin hist.io /\ "FATAL" \notin hist.io)
    => hist.ret = "PROCEED"
C7_RoundTrip ==
  (hist.sent.is_initialized /\ hist.steady = (hist.sent.msg_type # 0)) =>
    /\ hist.emitted # <<>> => hist.emitted = <<Seen(hist.sent)>>
    /\ Quiet => hist.emitted # <<>>

\* a startup packet longer than the buffer, its header parsed by
\* ReadStartupPacketHeader, made the round trip
C7_Witness ==
  /\ hist.sent.is_initialized /\ hist.sent.msg_type = 0 /\ ~hist.steady
  /\ hist.sent.len > CAP
  /\ hist.header_reads = 1
  /\ hist.emitted = <<Seen(hist.sent)>>
\* the current call met an outcome nothing recovers from: a fatal error of
\* read, write or the TLS library, or the handler's verdict to terminate
Unrecoverable ==
  /\ hist.call \in {"FillReadBuffer", "Process", "ProcessWrite"}
  /\ \/ "FATAL" \in hist.io
     \/ Called(<<"verdict", "TERMINATE">>)

C10_DeferredResult ==
  /\ [](hist.call = "GetResult" =>
          /\ hist.log = << <<"event_add", EV_READ_PERSIST>>, <<"GetResult", "">>,
                           <<"SetQueuing", "">> >>
          /\ conn.network_event.added /\ env.net_events = 1
          /\ conn.state = "WRITE" /\ env.active)
  /\ []((hist.call = "Process" /\ hist.ret = "GET_RESULT") =>
          conn.state = "WAIT_RESULT")
  /\ (conn.state = "WAIT_RESULT") ~> (conn.state = "WRITE")

\* after the wake GetResult has run: the event is back, the responses are
\* queued and the handle is in WRITE
C10_Witness ==
  /\ hist.call = "GetResult" /\ conn.state = "WRITE"
  /\ handler.responses # <<>>
  /\ conn.network_event.added

\* C11: a handshake that would block (SSL_accept wanting to read or to write)
\* is not an error: Process does not return ERROR and the handle is not closed
C11_HandshakeWouldBlock ==
  (hist.call = "Process" /\ hist.io \cap {"WANT_READ", "WANT_WRITE"} # {})
    => (hist.ret # "ERROR" /\ conn.state \notin {"CLOSING", "CLOSED"})

\* C12: once the SSL request is accepted the socket carries the single byte
\* 'S' and no length, and until the handshake has made the TLS session nothing
\* after the SSL request is framed or handed to the protocol handler
C12_HandshakeBeforeStartup ==
  conn.ssl_handshake_ =>
    /\ IsPrefix(env.wire_out, <<83>>)
    /\ ~conn.conn_SSL_context =>
         (Len(hist.emitted) <= 1 /\ ~handler.request.header_parsed)

\* C13: CloseSocket ends: from CLOSING, whatever SSL_shutdown answers, the
\* shutdown loop is left, the descriptor is closed and CloseSocket returns
C13_ClosingTerminates ==
  (conn.state = "CLOSING" /\ env.active /\ env.alive)
    ~> (conn.state = "CLOSED" /\ env.pc = "" /\ ~env.fd_open)

\* the length field that opens the client's stream (4 when the stream is
\* shorter than the field)
FirstLength ==
  IF Len(hist.stream) < 4 THEN 4
  ELSE hist.stream[1] * 16777216 + hist.stream[2] * 65536
         + hist.stream[3] * 256 + hist.stream[4]

\* C14: a startup packet whose length field is below 4 is refused: the payload
\* length is never the wrapped length - 4, no extended buffer is set up for
\* it, and once Process has the whole field it returns ERROR and the handle
\* is closed
C14_ShortLengthRejected ==
  (FirstLength < 4 /\ ~hist.steady) =>
    /\ conn.initial_packet.len <= FirstLength
    /\ ~conn.initial_packet.is_extended
    /\ (hist.call = "Process" /\ env.inbound = <<>>) =>
         (hist.ret = "ERROR" /\ env.alive /\ conn.state \in {"CLOSING", "CLOSED"})

C16_WouldBlockWrite ==
  (hist.call = "ProcessWrite" /\ hist.ret = "NONE" /\ ~conn.write_blocked_on_read)
    => /\ conn.write_blocked
       /\ conn.network_event.added
       /\ conn.network_event.flags = EV_WRITE_PERSIST

\* C17: a TLS read that would block on a write ends FillReadBuffer with
\* NEED_DATA, read_blocked_on_write set and the network event armed for
\* WRITE|PERSIST
C17_ReadBlockedOnWrite ==
  (hist.call = "FillReadBuffer" /\ "WANT_WRITE" \in hist.io)
    => /\ hist.ret = "NEED_DATA"
       /\ conn.read_blocked_on_write
       /\ conn.network_event.added
       /\ conn.network_event.flags = EV_WRITE_PERSIST

C19_HeaderOnce ==
  /\ hist.header_once
  /\ Len(hist.headers) = Len(handler.responses)
  /\ \A i \in 1..Len(handler.responses) :
       /\ hist.headers[i] <= 1
       /\ handler.responses[i].skip_header_write <=> hist.headers[i] = 1
       /\ i <= conn.next_response_ => hist.headers[i] = 1

\* WritePackets was entered again after a would-block, on a response whose
\* header was buffered by an earlier call, and met a would-block once more
C19_Witness ==
  /\ hist.call = "ProcessWrite" /\ hist.ret = "NONE" /\ hist.io = {"EAGAIN"}
  /\ env.wire_out # <<>>
  /\ conn.next_response_ < Len(handler.responses)
  /\ handler.responses[conn.next_response_ + 1].skip_header_write

\* C20: BufferWriteBytesContent, entered again for a response that is partly
\* copied, goes on from write_ptr: write_ptr never exceeds the payload length,
\* no copy reads past the end of the payload, none overwrites a byte of the
\* write buffer that is not yet sent
C20_ResumeFromCursor ==
  /\ \A i \in 1..Len(handler.responses) :
       handler.responses[i].write_ptr <= handler.responses[i].len
  /\ ~hist.overread
  /\ ~hist.clobbered

\* C21: when WritePackets returns WRITE_COMPLETE (ProcessWrite: PROCEED) the
\* response queue is empty and next_response_ is 0, and if the flush flag was
\* set the write buffer is empty and no appended byte was left unsent; when
\* it returns WRITE_NOT_READY (ProcessWrite: NONE) out of the packet loop,
\* next_response_ is the place of the response that was being buffered
C21_DrainedOrInProgress ==
  hist.call = "ProcessWrite" =>
    /\ hist.ret = "PROCEED" =>
         /\ handler.responses = <<>>
         /\ conn.next_response_ = 0
         /\ (\E k \in 1..Len(hist.log) : hist.log[k] = <<"GetFlushFlag", "set">>) =>
              /\ conn.wbuf.buf_size = 0 /\ conn.wbuf.buf_ptr = 0
              /\ conn.wbuf.buf_flush_ptr = 0
              /\ hist.unsent = {} /\ ~hist.dropped
    /\ (hist.ret = "NONE" /\ hist.in_progress # 0) =>
         /\ conn.next_response_ + 1 = hist.in_progress
         /\ conn.next_response_ < Len(handler.responses)

\* C22: when WritePackets has drained the queue and returned WRITE_COMPLETE
\* (ProcessWrite: PROCEED), the forced flush included, the handler's flush
\* flag is false
C22_FlushFlagDisabled ==
  (hist.call = "ProcessWrite" /\ hist.ret = "PROCEED") => ~handler.flush_flag

\* the outcomes of a call without the interrupted attempts
Uninterrupted(t) == SelectSeq(t, LAMBDA o : o[1] # "EINTR")

\* x and y end the call alike: the same fields, buffers, events, bytes on the
\* wire and returned value; only the record of the system calls differs
SameEnd(x, y) ==
  \A f \in DOMAIN x \ {"io", "calls", "trace"} : x[f] = y[f]

\* every way the call ends after interrupted attempts is the way it ends when
\* the same outcomes arrive without them
RetriedInPlace(ends) ==
  \A all \in {ends} :
    \A x \in all :
      "EINTR" \in x.io =>
        \E y \in all : y.trace = Uninterrupted(x.trace) /\ SameEnd(x, y)

\* C23: an interrupted (EINTR) read or SSL_read in FillReadBuffer, or write or
\* SSL_write in FlushWriteBuffer, is retried in place: the call ends with the
\* same buffer indices, the same fields and the same returned value as the
\* call that meets the same outcomes without the interrupted attempts
C23_InterruptedRetried ==
  /\ Running("READ") =>
       RetriedInPlace(FillReadBuffer(Begin("FillReadBuffer", 0, NoInput)))
  /\ Running("WRITE") =>
       \A junk \in JunkBytes :
         RetriedInPlace(ProcessWrite(Begin("ProcessWrite", junk, NoInput)))

\* a read was interrupted, retried, and delivered bytes
C23_Witness ==
  /\ hist.call = "FillReadBuffer" /\ hist.ret = "PROCEED"
  /\ {"EINTR", "bytes"} \subseteq hist.io
  /\ conn.rbuf.buf_size > 0

\* the place of a library call in the log of the last member-function call,
\* 0 when it was not made
At(what) ==
  IF \E k \in 1..Len(hist.log) : hist.log[k] = what
  THEN CHOOSE k \in 1..Len(hist.log) : hist.log[k] = what
  ELSE 0

\* C24: after CloseSocket has returned, whatever the state it was called in,
\* the state is CLOSED, both events are deleted, the indices of both buffers
\* are zero, next_response_ is 0, finish_startup_packet_ and ssl_handshake_
\* are false, the four blocked flags are false, the startup packet is reset
\* and there is no TLS session; the events were deleted before SSL_shutdown,
\* SSL_free came after SSL_shutdown, and close came last
C24_CloseSocketPost ==
  hist.call = "CloseSocket" =>
    /\ conn.state = "CLOSED"
    /\ ~conn.network_event.added /\ ~conn.workpool_event.added
    /\ env.net_events = 0 /\ env.work_events = 0
    /\ conn.rbuf.buf_ptr = 0 /\ conn.rbuf.buf_size = 0
    /\ conn.wbuf.buf_ptr = 0 /\ conn.wbuf.buf_size = 0 /\ conn.wbuf.buf_flush_ptr = 0
    /\ conn.next_response_ = 0
    /\ ~conn.finish_startup_packet_ /\ ~conn.ssl_handshake_
    /\ ~conn.read_blocked /\ ~conn.read_blocked_on_write
    /\ ~conn.write_blocked /\ ~conn.write_blocked_on_read
    /\ conn.initial_packet = EmptyPacket
    /\ ~conn.conn_SSL_context
    /\ At(<<"event_del", "">>) = 1
    /\ At(<<"close", "">>) = Len(hist.log)
    /\ At(<<"SSL_free", "">>) # 0 =>
         /\ At(<<"SSL_shutdown", "">>) # 0
         /\ At(<<"event_del", "">>) < At(<<"SSL_shutdown", "">>)
         /\ At(<<"SSL_shutdown", "">>) < At(<<"SSL_free", "">>)
         /\ At(<<"SSL_free", "">>) < At(<<"close", "">>)

\* a TLS connection was closed: events deleted, shutdown, free, close
C24_Witness ==
  /\ hist.call = "CloseSocket" /\ conn.state = "CLOSED" /\ ~env.fd_open
  /\ hist.log = << <<"event_del", "">>, <<"SSL_shutdown", "">>,
                   <<"SSL_free", "">>, <<"close", "">> >>

\* the bytes between the read cursor and the end of the data read
Readable == conn.rbuf.buf_size - conn.rbuf.buf_ptr

C27_WriteTransitions ==
  [][(StepWrite /\ env'.alive) =>
       /\ hist'.ret = "PROCEED" =>
            /\ conn'.state = "READ"
            /\ conn'.network_event.added
            /\ conn'.network_event.flags = EV_READ_PERSIST
       /\ hist'.ret = "NONE" =>
            /\ conn'.state = "WRITE" /\ ~env'.active
            /\ conn'.network_event.added
            /\ conn'.network_event.flags = EV_WRITE_PERSIST
       /\ hist'.ret = "ERROR" => conn'.state = "CLOSING"]_vars

\* the last member-function call logged what
InLog(h, what) == \E k \in 1..Len(h.log) : h.log[k] = what

\* C28: a step of PROCESS takes the startup path exactly when there is no
\* protocol handler: with a handler it leaves the startup packet and the
\* count of handlers alone; without one it leaves the handler's request
\* alone, and it ends in PROCEED with the handler created and the whole
\* startup packet handed over (COMPLETE), in NEED_DATA with no handler yet
\* (MORE_DATA_REQUIRED), or in ERROR (TERMINATE, or a failed handshake),
\* never in GET_RESULT.  A connection creates at most one handler
C28_StartupPath ==
  [][(Running("PROCESS") /\ hist' # hist) =>
       /\ hist'.handlers_made <= 1
       /\ IF conn.protocol_handler_
          THEN /\ conn'.initial_packet = conn.initial_packet
               /\ conn'.protocol_handler_
               /\ hist'.handlers_made = hist.handlers_made
               /\ hist'.header_reads = hist.header_reads
          ELSE /\ handler'.request = handler.request
               /\ hist'.ret \in {"PROCEED", "NEED_DATA", "ERROR", "THROW"}
               /\ conn'.state # "WAIT_RESULT" /\ ~handler'.in_flight
               /\ hist'.ret = "PROCEED" =>
                    /\ InLog(hist', <<"verdict", "COMPLETE">>)
                    /\ conn'.protocol_handler_
                    /\ hist'.handlers_made = hist.handlers_made + 1
                    /\ Len(hist'.emitted) = Len(hist.emitted) + 1
                    /\ LET pkt == hist'.emitted[Len(hist'.emitted)]
                       IN pkt.msg_type = 0 /\ Len(pkt.buf) = pkt.len
                    /\ conn'.state = "WRITE"
               /\ hist'.ret = "NEED_DATA" =>
                    /\ ~conn'.protocol_handler_
                    /\ hist'.handlers_made = hist.handlers_made
                    /\ hist'.emitted = hist.emitted
                    /\ conn'.state = "READ"
               /\ hist'.ret = "ERROR" =>
                    /\ \/ InLog(hist', <<"verdict", "TERMINATE">>)
                       \/ hist'.io \cap {"WANT_READ", "WANT_WRITE", "FATAL"} # {}
                    /\ conn'.state = "CLOSING"]_vars

\* the startup packet was read whole, the handler was created and the startup
\* completed
C28_Witness ==
  /\ hist.call = "Process" /\ hist.ret = "PROCEED"
  /\ InLog(hist, <<"verdict", "COMPLETE">>)
  /\ hist.handlers_made = 1 /\ conn.protocol_handler_
  /\ Len(hist.emitted) = 1 /\ hist.emitted[1].msg_type = 0
  /\ conn.finish_startup_packet_

\* C29: read_blocked and read_blocked_on_write are never both true, nor are
\* write_blocked and write_blocked_on_read; a flag that is true was set by
\* the last SSL_read (for the write flags, the last SSL_write) on the TLS
\* session, which would have blocked in the direction the flag names
C29_BlockedFlags ==
  /\ ~(conn.read_blocked /\ conn.read_blocked_on_write)
  /\ ~(conn.write_blocked /\ conn.write_blocked_on_read)
  /\ conn.read_blocked => (conn.conn_SSL_context /\ hist.last_SSL_read = "WANT_READ")
  /\ conn.read_blocked_on_write =>
       (conn.conn_SSL_context /\ hist.last_SSL_read = "WANT_WRITE")
  /\ conn.write_blocked => (conn.conn_SSL_context /\ hist.last_SSL_write = "WANT_WRITE")
  /\ conn.write_blocked_on_read =>
       (conn.conn_SSL_context /\ hist.last_SSL_write = "WANT_READ")

\* the last SSL_read would have blocked on a write
C29_Witness ==
  /\ hist.call = "FillReadBuffer" /\ hist.io = {"WANT_WRITE"}
  /\ conn.read_blocked_on_write /\ ~conn.read_blocked
  /\ hist.last_SSL_read = "WANT_WRITE"

\* C30: the first call of WritePackets on a queue, with the flush flag set
\* and a socket that takes at least one byte at every write, returns
\* WRITE_COMPLETE (ProcessWrite: PROCEED) and has put on the socket exactly
\* the serialised responses in the order of the queue, whatever the payload
\* sizes, those longer than the write buffer included
C30_OneCallDeliversAll ==
  [][(hist.call = "Process" /\ hist'.call = "ProcessWrite" /\ handler.flush_flag
        /\ hist'.io \subseteq {"bytes"}) =>
       /\ hist'.ret = "PROCEED"
       /\ env'.wire_out = hist.expected
       /\ ~hist'.ub /\ ~hist'.clobbered /\ hist'.handed_ok
       /\ handler'.responses = <<>>
       /\ conn'.wbuf.buf_size = 0]_vars

\* a response longer than the write buffer went out whole in one call
C30_Witness ==
  /\ hist.call = "ProcessWrite" /\ hist.ret = "PROCEED" /\ hist.io = {"bytes"}
  /\ handler.flush_flag
  /\ Len(hist.expected) >= 2 * CAP /\ env.wire_out = hist.expected

\* the bytes of the read buffer of w that are read and not yet consumed
Unread(w) ==
  [k \in 1..(w.rbuf.buf_size - w.rbuf.buf_ptr) |-> w.rbuf.buf[w.rbuf.buf_ptr + k - 1]]

\* C31: the reset and the compaction at the head of FillReadBuffer keep the
\* bytes between the cursor and the end of the data, in their order; the
\* buffer is reset only with every byte consumed (buf_ptr = buf_size), the
\* tail is moved to offset 0 only in a full buffer (buf_size = CAP), and with
\* read_blocked set neither is done
C31_PreReadKeepsUnread ==
  Running("READ") =>
    LET w == Begin("FillReadBuffer", 0, NoInput)
        p == PreRead(w)
    IN /\ Unread(p) = Unread(w)
       /\ p.rbuf.buf_ptr <= p.rbuf.buf_size /\ p.rbuf.buf_size <= CAP
       /\ conn.read_blocked => (p.rbuf = conn.rbuf /\ p.log = <<>>)
       /\ (p.rbuf.buf_size = 0 /\ conn.rbuf.buf_size > 0) =>
            conn.rbuf.buf_ptr = conn.rbuf.buf_size
       /\ InLog(p, <<"memmove", "">>) =>
            /\ conn.rbuf.buf_size = CAP /\ conn.rbuf.buf_ptr < CAP
            /\ p.rbuf.buf_ptr = 0
            /\ p.rbuf.buf_size = conn.rbuf.buf_size - conn.rbuf.buf_ptr
       /\ p.rbuf.buf # conn.rbuf.buf => InLog(p, <<"memmove", "">>)

\* a full buffer with a consumed head was compacted: the unread tail is at
\* offset 0 and the bytes read after it follow
C31_Witness ==
  /\ hist.call = "FillReadBuffer" /\ InLog(hist, <<"memmove", "">>)
  /\ conn.rbuf.buf_ptr = 0 /\ conn.rbuf.buf_size > 1
  /\ conn.rbuf.buf[0] = 81 /\ "bytes" \in hist.io

====
